---- MODULE Spec2Model ----
(***************************************************************************)
(* 2D periodic table-lookup interpolation (interp2_table1_for.cpp).        *)
(*                                                                         *)
(* Numbers.  Query coordinates are rationals tn/TDen, held as the integer  *)
(* numerator tn.  Table and grid values are integers, so every sum and     *)
(* product of the code is exact.  The 1st-order weight                     *)
(* (1-alf)*h[n] + alf*h[n+1] is held as its numerator over TDen, so the    *)
(* outputs of interp2_table1_real_per are numerators over TDen*TDen        *)
(* (Scale); the outputs of the two 0th-order functions are plain integers. *)
(*                                                                         *)
(* Undefined operations.  The code checks nothing, so a call can read a    *)
(* table, the grid or p_tm outside its bounds, divide by K = 0 and read    *)
(* malloc'ed words it never wrote.  Each such step is recorded in err.     *)
(* What it yields is not fixed by the code: a read outside an array        *)
(* returns the word lying there (the stray words of env), the conversion   *)
(* of an infinite quotient to int gives any int (UBInt), and every word of *)
(* a block from malloc holds what the heap held there: any value, word by  *)
(* word, and independently in the two private buffers (HeapVals).  All     *)
(* three are chosen nondeterministically, and the memory around the arrays *)
(* is not written during the call.                                         *)
(*                                                                         *)
(* A private buffer is a function from the slots whose content has been    *)
(* determined, by a store of its thread or by a read of the merge; a slot  *)
(* outside its domain is an uninitialised word that nothing has read yet.  *)
(***************************************************************************)
EXTENDS Integers, Sequences, FiniteSets, TLC

\* ------------------------------------------------------------- bounds ----
MaxJ == 3          \* window widths J1, J2 in 1..MaxJ
MaxL == 2          \* table subdivision rates L1, L2 in 1..MaxL
MaxK == 3          \* grid extents K1, K2 in 1..MaxK
MaxM == 2          \* query points per call: 1..MaxM (MaxM+1 in the index runs)
MaxThreads == 2    \* size of the OpenMP team
MaxWords == 4      \* words of one kind of private buffer per call: M * team size
TDen == 4          \* query coordinates are multiples of 1/TDen

INT_MIN == -2147483647 - 1

\* ------------------------------------------------- arithmetic helpers ----
\* floor(num/den) for den > 0 (math.h floor applied to an exact quotient)
Floor(num, den) == num \div den

\* C's % on int: truncating remainder, sign of the dividend
CRem(a, b) == IF a >= 0 \/ a % b = 0 THEN a % b ELSE (a % b) - b

\* const int ncenter = floor(J * L/2.);
ncenter(J, L) == Floor(J * L, 2)

\* 1 + floor(t - J / 2.)   with t = tn/TDen
koff(tn, J) == 1 + Floor(2 * tn - J * TDen, 2 * TDen)

\* p = (t - k) * L, as a numerator over TDen
pnum(tn, k, L) == (tn - k * TDen) * L

\* iround(p): def,table2.h is not part of the sources; the specification
\* gives round-to-nearest with ties away from zero.
iround(p) ==
    IF p >= 0 THEN Floor(2 * p + TDen, 2 * TDen)
              ELSE -Floor(-(2 * p) + TDen, 2 * TDen)

\* n = floor(p)
floorp(p) == Floor(p, TDen)

\* alf = p - n, as a numerator over TDen
alf(p) == p - TDen * floorp(p)

\* const int wrap = floor(k / (double) K);  K > 0
wrap_trunc(k, K) == IF k >= 0 THEN k \div K ELSE -((-k) \div K)
wrap(k, K) == Floor(k, K)

\* With K = 0 the quotient is +-inf or NaN and its conversion to int is
\* undefined: any int may result.
UBInt == {INT_MIN, 0, 1}
WrapSet(k, K) == IF K > 0 THEN {wrap(k, K)} ELSE UBInt

\* mymod(k, K): def,table2.h is not part of the sources; the specification
\* gives kmod = k - K*floor(k/K).
mymod(k, K) == IF K > 0 THEN k - K * Floor(k, K) ELSE k

\* if (flip && (wrap % 2)) coef = -coef;
FlipCoef_pos(flip, w, coef) == IF flip # 0 /\ CRem(w, 2) = 1 THEN -coef ELSE coef
FlipCoef(flip, w, coef) == IF flip # 0 /\ CRem(w, 2) # 0 THEN -coef ELSE coef

\* ---------------------------------------------------------------- state ----
VARIABLES
    arg,            \* the arguments of the call (read-only)
    env,            \* memory around the call: stray words, prior output, team size
    pc,             \* position of the calling thread
    err,            \* set of undefined operations executed so far
    r_fm, i_fm,     \* the caller's output arrays, [0..M-1]
    loc,            \* locals of the sequential evaluators
    next,           \* next unclaimed iteration of the schedule(dynamic) loop
    tpc,            \* position of each thread of the team
    tmm,            \* each thread's private mm
    r_fm_private, i_fm_private,   \* each thread's private output buffers
    ld,             \* each thread's loaded operands of the pending +=
    crit,           \* thread inside the omp critical region, 0 if none
    owner           \* owner[m]: thread that was assigned iteration m, 0 if none yet

vars == <<arg, env, pc, err, r_fm, i_fm, loc, next, tpc, tmm,
          r_fm_private, i_fm_private, ld, crit, owner>>

parvars == <<next, tpc, tmm, r_fm_private, i_fm_private, ld, crit, owner>>

Threads == 1..env.nthreads
Slots == 0..(arg.M - 1)

\* outputs of the 1st-order function are numerators over TDen*TDen
Scale(fn) == IF fn = "real1" THEN TDen * TDen ELSE 1

\* --------------------------------------------------------- memory reads ----
\* r_h += ncenter; ... r_h[n]: a read of the table at ncenter + n.  A read
\* outside [0, J*L] returns the word that happens to lie there (s).
TabOk(J, L, n) == ncenter(J, L) + n >= 0 /\ ncenter(J, L) + n <= J * L
TabAt(h, J, L, n, s) == IF TabOk(J, L, n) THEN h[ncenter(J, L) + n] ELSE s

\* r_ck[kk]: a read of the K1*K2 grid
CkOk(kk) == kk >= 0 /\ kk < arg.K1 * arg.K2
CkAt(ck, kk) == IF CkOk(kk) THEN ck[kk] ELSE env.stray_ck

\* p_tm[i]
PtOk(i) == i >= 0 /\ i < 2 * arg.M
PtAt(i) == IF PtOk(i) THEN arg.p_tm[i] ELSE env.stray_ck

\* ------------------------------------------------------- table sampling ----
\* 0th order: coef = r_h[iround(p)]
n0(p) == iround(p)
coef0(h, J, L, p, s) == TabAt(h, J, L, n0(p), s)
Tab0Err(J, L, p) == IF TabOk(J, L, n0(p)) THEN {} ELSE {"table"}

\* 1st order: n = floor(p); alf = p - n; coef = (1 - alf) * ph[0] + alf * ph[1]
n1st(p) == floorp(p)
coef1(h, J, L, p, s) ==
    (TDen - alf(p)) * TabAt(h, J, L, n1st(p), s)
        + alf(p) * TabAt(h, J, L, n1st(p) + 1, s)
Tab1Err(J, L, p) ==
    IF TabOk(J, L, n1st(p)) /\ TabOk(J, L, n1st(p) + 1) THEN {} ELSE {"table"}

TabIndex(fn, p) == IF fn = "real1" THEN n1st(p) ELSE n0(p)
Coef(fn, h, J, L, p, s) ==
    IF fn = "real1" THEN coef1(h, J, L, p, s) ELSE coef0(h, J, L, p, s)
TabErr(fn, J, L, p) ==
    IF fn = "real1" THEN Tab1Err(J, L, p) ELSE Tab0Err(J, L, p)

DivErr(K) == IF K > 0 THEN {} ELSE {"divzero"}
CkErr(kk) == IF CkOk(kk) THEN {} ELSE {"grid"}
PtErr(i) == IF PtOk(i) THEN {} ELSE {"p_tm"}

\* the two coordinates of query point m
Pt1(m) == arg.p_tm[m]
Pt2(m) == arg.p_tm[arg.M + m]

\* ------------------------------------------------ sequential evaluators ----
\* interp2_table0_real_per and interp2_table1_real_per share every line of
\* their loops but the table sampling (Coef); both are built with
\* Provide_flip.  loc holds their locals.
Loc0 ==
    [mm |-> 0, t1 |-> 0, t2 |-> 0, sum2r |-> 0, sum2i |-> 0, koff1 |-> 0,
     k2 |-> 0, jj2 |-> 0, n2 |-> 0, coef2r |-> 0, wrap2 |-> 0, k2mod |-> 0,
     k12mod |-> 0, sum1r |-> 0, sum1i |-> 0, k1 |-> 0, jj1 |-> 0, n1 |-> 0,
     coef1r |-> 0, wrap1 |-> 0, k1mod |-> 0, kk |-> 0]

IsSeq == arg.fn \in {"real0", "real1"}

\* entry of a sequential evaluator: the table pointers are centred, mm = 0
SeqEntry ==
    /\ pc = "entry" /\ IsSeq
    /\ pc' = "mm"
    /\ loc' = Loc0
    /\ UNCHANGED <<arg, env, err, r_fm, i_fm>> /\ UNCHANGED parvars

\* for (mm=0; mm < M; mm++)
MoreMM_le == loc.mm <= arg.M
MoreMM == loc.mm < arg.M

\* head of the body: t2 = p_tm[M]; t1 = *p_tm++; sums cleared; koff1, k2
ForMM ==
    /\ pc = "mm" /\ MoreMM
    /\ LET t2 == PtAt(arg.M + loc.mm)
           t1 == PtAt(loc.mm)
       IN loc' = [loc EXCEPT !.t1 = t1, !.t2 = t2, !.sum2r = 0, !.sum2i = 0,
                             !.koff1 = koff(t1, arg.J1),
                             !.k2 = koff(t2, arg.J2), !.jj2 = 0]
    /\ err' = err \cup PtErr(arg.M + loc.mm) \cup PtErr(loc.mm)
    /\ pc' = "j2"
    /\ UNCHANGED <<arg, env, r_fm, i_fm>> /\ UNCHANGED parvars

\* one pass of the jj2 loop up to the start of the jj1 loop
ForJ2 ==
    /\ pc = "j2" /\ loc.jj2 < arg.J2
    /\ LET p2 == pnum(loc.t2, loc.k2, arg.L2)
           c2 == Coef(arg.fn, arg.r_h2, arg.J2, arg.L2, p2, env.stray_h2)
       IN /\ \E wrap2 \in WrapSet(loc.k2, arg.K2) :
                LET k2mod == loc.k2 - arg.K2 * wrap2
                IN loc' = [loc EXCEPT !.n2 = TabIndex(arg.fn, p2),
                                      !.coef2r = FlipCoef(arg.flip2, wrap2, c2),
                                      !.wrap2 = wrap2, !.k2mod = k2mod,
                                      !.k12mod = k2mod * arg.K1,
                                      !.sum1r = 0, !.sum1i = 0,
                                      !.k1 = loc.koff1, !.jj1 = 0]
          /\ err' = err \cup TabErr(arg.fn, arg.J2, arg.L2, p2) \cup DivErr(arg.K2)
    /\ pc' = "j1"
    /\ UNCHANGED <<arg, env, r_fm, i_fm>> /\ UNCHANGED parvars

\* one pass of the jj1 loop, its increment (jj1++, k1++) included
ForJ1 ==
    /\ pc = "j1" /\ loc.jj1 < arg.J1
    /\ LET p1 == pnum(loc.t1, loc.k1, arg.L1)
           c1 == Coef(arg.fn, arg.r_h1, arg.J1, arg.L1, p1, env.stray_h1)
       IN /\ \E wrap1 \in WrapSet(loc.k1, arg.K1) :
                LET k1mod == loc.k1 - arg.K1 * wrap1
                    kk == loc.k12mod + k1mod
                    coef1r == FlipCoef(arg.flip1, wrap1, c1)
                IN /\ loc' = [loc EXCEPT !.n1 = TabIndex(arg.fn, p1),
                                         !.coef1r = coef1r,
                                         !.wrap1 = wrap1, !.k1mod = k1mod, !.kk = kk,
                                         !.sum1r = loc.sum1r + coef1r * CkAt(arg.r_ck, kk),
                                         !.sum1i = loc.sum1i + coef1r * CkAt(arg.i_ck, kk),
                                         !.jj1 = loc.jj1 + 1, !.k1 = loc.k1 + 1]
                   /\ err' = err \cup TabErr(arg.fn, arg.J1, arg.L1, p1)
                                 \cup DivErr(arg.K1) \cup CkErr(kk)
    /\ pc' = "j1"
    /\ UNCHANGED <<arg, env, r_fm, i_fm>> /\ UNCHANGED parvars

\* end of the jj1 loop: sum2 += coef2 * sum1; jj2++, k2++
EndJ1 ==
    /\ pc = "j1" /\ loc.jj1 >= arg.J1
    /\ loc' = [loc EXCEPT !.sum2r = loc.sum2r + loc.coef2r * loc.sum1r,
                          !.sum2i = loc.sum2i + loc.coef2r * loc.sum1i,
                          !.jj2 = loc.jj2 + 1, !.k2 = loc.k2 + 1]
    /\ pc' = "j2"
    /\ UNCHANGED <<arg, env, err, r_fm, i_fm>> /\ UNCHANGED parvars

\* *r_fm++ = sum2r; *i_fm++ = sum2i;
Stored_acc(old, v) == old + v
Stored(old, v) == v

\* end of the jj2 loop: the output slot is stored; mm++
EndJ2 ==
    /\ pc = "j2" /\ loc.jj2 >= arg.J2
    /\ r_fm' = [r_fm EXCEPT ![loc.mm] = Stored(r_fm[loc.mm], loc.sum2r)]
    /\ i_fm' = [i_fm EXCEPT ![loc.mm] = Stored(i_fm[loc.mm], loc.sum2i)]
    /\ loc' = [loc EXCEPT !.mm = loc.mm + 1]
    /\ pc' = "mm"
    /\ UNCHANGED <<arg, env, err>> /\ UNCHANGED parvars

\* the mm loop ends and the function returns
SeqReturn ==
    /\ pc = "mm" /\ ~MoreMM
    /\ pc' = "done"
    /\ UNCHANGED <<arg, env, err, r_fm, i_fm, loc>> /\ UNCHANGED parvars

NextSeq == SeqEntry \/ ForMM \/ ForJ2 \/ ForJ1 \/ EndJ1 \/ EndJ2 \/ SeqReturn

\* ---------------------------------------- the evaluators as functions ----
\* interp2_table0_complex_per, body of the mm loop: the jj1 loop from pass
\* jj1 on, s = [r, i, err] the running sum1 and the undefined reads met
RECURSIVE c_loop1(_, _, _, _, _)
c_loop1(t1, k12mod, jj1, k1, s) ==
    IF jj1 < arg.J1
    THEN LET p1 == pnum(t1, k1, arg.L1)
             n1 == iround(p1)
             coef1r == TabAt(arg.r_h1, arg.J1, arg.L1, n1, env.stray_h1)
             coef1i == TabAt(arg.i_h1, arg.J1, arg.L1, n1, env.stray_h1)
             k1mod == mymod(k1, arg.K1)
             kk == k12mod + k1mod
             rck == CkAt(arg.r_ck, kk)
             ick == CkAt(arg.i_ck, kk)
         IN c_loop1(t1, k12mod, jj1 + 1, k1 + 1,
                    [r |-> s.r + coef1r * rck - coef1i * ick,
                     i |-> s.i + coef1r * ick + coef1i * rck,
                     err |-> s.err \cup Tab0Err(arg.J1, arg.L1, p1)
                                   \cup DivErr(arg.K1) \cup CkErr(kk)])
    ELSE s

\* the jj2 loop from pass jj2 on, s the running sum2
RECURSIVE c_loop2(_, _, _, _, _)
c_loop2(t1, t2, jj2, k2, s) ==
    IF jj2 < arg.J2
    THEN LET p2 == pnum(t2, k2, arg.L2)
             n2 == iround(p2)
             coef2r == TabAt(arg.r_h2, arg.J2, arg.L2, n2, env.stray_h2)
             coef2i == TabAt(arg.i_h2, arg.J2, arg.L2, n2, env.stray_h2)
             k2mod == mymod(k2, arg.K2)
             k12mod == k2mod * arg.K1
             sum1 == c_loop1(t1, k12mod, 0, koff(t1, arg.J1),
                             [r |-> 0, i |-> 0, err |-> {}])
         IN c_loop2(t1, t2, jj2 + 1, k2 + 1,
                    [r |-> s.r + coef2r * sum1.r - coef2i * sum1.i,
                     i |-> s.i + coef2r * sum1.i + coef2i * sum1.r,
                     err |-> s.err \cup sum1.err
                                   \cup Tab0Err(arg.J2, arg.L2, p2) \cup DivErr(arg.K2)])
    ELSE s

\* sum2r, sum2i of query point mm
Sum2Complex(mm) ==
    LET t2 == PtAt(arg.M + mm)
        t1 == PtAt(mm)
    IN c_loop2(t1, t2, 0, koff(t2, arg.J2), [r |-> 0, i |-> 0, err |-> {}])

\* The two real-table evaluators as functions (K1, K2 > 0): the jj1 loop
RECURSIVE r_loop1(_, _, _, _, _)
r_loop1(t1, k12mod, jj1, k1, s) ==
    IF jj1 < arg.J1
    THEN LET p1 == pnum(t1, k1, arg.L1)
             wrap1 == wrap(k1, arg.K1)
             k1mod == k1 - arg.K1 * wrap1
             kk == k12mod + k1mod
             coef1r == FlipCoef(arg.flip1, wrap1,
                           Coef(arg.fn, arg.r_h1, arg.J1, arg.L1, p1, env.stray_h1))
         IN r_loop1(t1, k12mod, jj1 + 1, k1 + 1,
                    [r |-> s.r + coef1r * CkAt(arg.r_ck, kk),
                     i |-> s.i + coef1r * CkAt(arg.i_ck, kk)])
    ELSE s

\* the jj2 loop
RECURSIVE r_loop2(_, _, _, _, _)
r_loop2(t1, t2, jj2, k2, s) ==
    IF jj2 < arg.J2
    THEN LET p2 == pnum(t2, k2, arg.L2)
             wrap2 == wrap(k2, arg.K2)
             k2mod == k2 - arg.K2 * wrap2
             coef2r == FlipCoef(arg.flip2, wrap2,
                           Coef(arg.fn, arg.r_h2, arg.J2, arg.L2, p2, env.stray_h2))
             sum1 == r_loop1(t1, k2mod * arg.K1, 0, koff(t1, arg.J1), [r |-> 0, i |-> 0])
         IN r_loop2(t1, t2, jj2 + 1, k2 + 1,
                    [r |-> s.r + coef2r * sum1.r, i |-> s.i + coef2r * sum1.i])
    ELSE s

Sum2Real(mm) ==
    r_loop2(Pt1(mm), Pt2(mm), 0, koff(Pt2(mm), arg.J2), [r |-> 0, i |-> 0])

\* ------------------------------------------------- parallel evaluator ----
\* interp2_table0_complex_per.  The team has env.nthreads threads; every
\* thread runs the parallel region: malloc, its share of the dynamic loop,
\* the loop's implied barrier, the critical merge, free.

\* (void) memset((void *) r_fm, 0, M*sizeof(*r_fm));
Cleared_none(old) == old
Cleared(old) == [m \in DOMAIN old |-> 0]

\* the caller clears the output and the team starts
ParEntry ==
    /\ pc = "entry" /\ arg.fn = "complex0"
    /\ r_fm' = Cleared(r_fm)
    /\ i_fm' = Cleared(i_fm)
    /\ pc' = "parallel"
    /\ tpc' = [w \in Threads |-> "malloc"]
    /\ UNCHANGED <<arg, env, err, loc, next, tmm, r_fm_private, i_fm_private,
                   ld, crit, owner>>

\* what a word of a fresh malloc block can hold
HeapVals == {0, 7}

\* buffer buf with slot m holding v
Put(buf, m, v) == [x \in DOMAIN buf \cup {m} |-> IF x = m THEN v ELSE buf[x]]

\* r_fm_private = malloc(...); i_fm_private = malloc(...): two fresh blocks,
\* no word of which is initialised
Malloc(w) ==
    /\ pc = "parallel" /\ tpc[w] = "malloc"
    /\ r_fm_private' = [r_fm_private EXCEPT ![w] = <<>>]
    /\ i_fm_private' = [i_fm_private EXCEPT ![w] = <<>>]
    /\ tpc' = [tpc EXCEPT ![w] = "for"]
    /\ UNCHANGED <<arg, env, pc, err, r_fm, i_fm, loc, next, tmm, ld, crit, owner>>

\* schedule(dynamic): the thread takes the next iteration, evaluates query
\* point mm and stores it in its private buffers
OmpFor(w) ==
    /\ pc = "parallel" /\ tpc[w] = "for" /\ next < arg.M
    /\ LET mm == next
           sum2 == Sum2Complex(mm)
       IN /\ r_fm_private' = [r_fm_private EXCEPT ![w] = Put(@, mm, sum2.r)]
          /\ i_fm_private' = [i_fm_private EXCEPT ![w] = Put(@, mm, sum2.i)]
          /\ err' = err \cup sum2.err
          /\ owner' = [owner EXCEPT ![mm] = w]
          /\ tmm' = [tmm EXCEPT ![w] = mm]
    /\ next' = next + 1
    /\ UNCHANGED <<arg, env, pc, r_fm, i_fm, loc, tpc, ld, crit>>

\* no iteration is left: the thread waits at the barrier ending the loop
ForDone(w) ==
    /\ pc = "parallel" /\ tpc[w] = "for" /\ next >= arg.M
    /\ tpc' = [tpc EXCEPT ![w] = "barrier"]
    /\ UNCHANGED <<arg, env, pc, err, r_fm, i_fm, loc, next, tmm,
                   r_fm_private, i_fm_private, ld, crit, owner>>

\* #pragma omp critical: one thread at a time
CritFree_none == TRUE
CritFree == crit = 0

\* every thread has reached the barrier; the thread enters the critical
\* region and starts the merge loop (mm = 0)
EnterCritical(w) ==
    /\ pc = "parallel" /\ tpc[w] = "barrier"
    /\ \A v \in Threads : tpc[v] \notin {"malloc", "for"}
    /\ CritFree
    /\ crit' = w
    /\ tmm' = [tmm EXCEPT ![w] = 0]
    /\ tpc' = [tpc EXCEPT ![w] = "load"]
    /\ UNCHANGED <<arg, env, pc, err, r_fm, i_fm, loc, next,
                   r_fm_private, i_fm_private, ld, owner>>

\* r_fm[mm] += r_fm_private[mm]; i_fm[mm] += i_fm_private[mm]: the operands
\* are read.  A private slot its thread never stored to is an uninitialised
\* word of the malloc block: the read is recorded and finds any value there,
\* the two buffers independently.
MergeLoad(w) ==
    /\ pc = "parallel" /\ tpc[w] = "load" /\ tmm[w] < arg.M
    /\ ld' = [ld EXCEPT ![w] = <<r_fm[tmm[w]], i_fm[tmm[w]]>>]
    /\ tpc' = [tpc EXCEPT ![w] = "store"]
    /\ IF tmm[w] \in DOMAIN r_fm_private[w]
       THEN UNCHANGED <<r_fm_private, i_fm_private, err>>
       ELSE /\ \E vr \in HeapVals, vi \in HeapVals :
                  /\ r_fm_private' = [r_fm_private EXCEPT ![w] = Put(@, tmm[w], vr)]
                  /\ i_fm_private' = [i_fm_private EXCEPT ![w] = Put(@, tmm[w], vi)]
            /\ err' = err \cup {"uninit"}
    /\ UNCHANGED <<arg, env, pc, r_fm, i_fm, loc, next, tmm, crit, owner>>

\* ... and the sums are written back; mm++
MergeStore(w) ==
    /\ pc = "parallel" /\ tpc[w] = "store"
    /\ r_fm' = [r_fm EXCEPT ![tmm[w]] = ld[w][1] + r_fm_private[w][tmm[w]]]
    /\ i_fm' = [i_fm EXCEPT ![tmm[w]] = ld[w][2] + i_fm_private[w][tmm[w]]]
    /\ tmm' = [tmm EXCEPT ![w] = tmm[w] + 1]
    /\ tpc' = [tpc EXCEPT ![w] = "load"]
    /\ UNCHANGED <<arg, env, pc, err, loc, next, r_fm_private, i_fm_private,
                   ld, crit, owner>>

\* the merge loop ends: the thread leaves the critical region and frees
\* its buffers (the model keeps what the merge read from them)
ExitCritical(w) ==
    /\ pc = "parallel" /\ tpc[w] = "load" /\ tmm[w] >= arg.M
    /\ crit' = 0
    /\ tpc' = [tpc EXCEPT ![w] = "end"]
    /\ UNCHANGED <<arg, env, pc, err, r_fm, i_fm, loc, next, tmm,
                   r_fm_private, i_fm_private, ld, owner>>

\* end of the parallel region: the function returns
Join ==
    /\ pc = "parallel" /\ \A w \in Threads : tpc[w] = "end"
    /\ pc' = "done"
    /\ UNCHANGED <<arg, env, err, r_fm, i_fm, loc>> /\ UNCHANGED parvars

NextPar ==
    \/ ParEntry
    \/ \E w \in Threads : Malloc(w)
    \/ \E w \in Threads : OmpFor(w)
    \/ \E w \in Threads : ForDone(w)
    \/ \E w \in Threads : EnterCritical(w)
    \/ \E w \in Threads : MergeLoad(w)
    \/ \E w \in Threads : MergeStore(w)
    \/ \E w \in Threads : ExitCritical(w)
    \/ Join

Next == NextSeq \/ NextPar

\* ------------------------------------------------------------ call setup ----
GenTab(J, L) == [n \in 0..(J * L) |-> n + 1]
GenTabI(J, L) == [n \in 0..(J * L) |-> 2 - n]
DeltaTab(J, L) == [n \in 0..(J * L) |-> IF n = ncenter(J, L) THEN 1 ELSE 0]
ZeroTab(J, L) == [n \in 0..(J * L) |-> 0]
GenGridR(K1, K2) == [kk \in 0..(K1 * K2 - 1) |-> kk + 1]
GenGridI(K1, K2) == [kk \in 0..(K1 * K2 - 1) |-> -(2 * kk) - 3]

\* p_tm is [M,2]: M axis-1 coordinates, then M axis-2 coordinates.  Query
\* point m is (t1 + m*d1, t2 + m*d2).
Pts(M, t1, d1, t2, d2) ==
    [i \in 0..(2 * M - 1) |-> IF i < M THEN t1 + i * d1 ELSE t2 + (i - M) * d2]

\* the state at the call
Start(a, e) ==
    /\ arg = a
    /\ env = e
    /\ pc = "entry"
    /\ err = {}
    /\ r_fm = [m \in 0..(a.M - 1) |-> e.prior]
    /\ i_fm = [m \in 0..(a.M - 1) |-> -e.prior]
    /\ loc = Loc0
    /\ next = 0
    /\ tpc = [w \in 1..e.nthreads |-> "idle"]
    /\ tmm = [w \in 1..e.nthreads |-> 0]
    /\ r_fm_private = [w \in 1..e.nthreads |-> <<>>]
    /\ i_fm_private = [w \in 1..e.nthreads |-> <<>>]
    /\ ld = [w \in 1..e.nthreads |-> <<0, 0>>]
    /\ crit = 0
    /\ owner = [m \in 0..(a.M - 1) |-> 0]

Env(nthreads, prior, s1, s2, sc) ==
    [nthreads |-> nthreads, prior |-> prior,
     stray_h1 |-> s1, stray_h2 |-> s2, stray_ck |-> sc]

\* one axis of a call: extent, window, rate, flip flag, first coordinate
Axis(K, J, L, flip, t) == [K |-> K, J |-> J, L |-> L, flip |-> flip, t |-> t]

\* a call of evaluator fn with M points, point m shifted by m*(d1, d2), on
\* a generic grid; kind selects delta tables or generic ones (complex for
\* the complex evaluator, which has no flip flags)
Tab(kind, J, L) == IF kind = "delta" THEN DeltaTab(J, L) ELSE GenTab(J, L)
TabI(fn, kind, J, L) ==
    IF fn = "complex0" /\ kind # "delta" THEN GenTabI(J, L) ELSE ZeroTab(J, L)
Call(fn, a1, a2, M, d1, d2, kind) ==
    [fn |-> fn, K1 |-> a1.K, K2 |-> a2.K, J1 |-> a1.J, J2 |-> a2.J,
     L1 |-> a1.L, L2 |-> a2.L, flip1 |-> a1.flip, flip2 |-> a2.flip,
     M |-> M, p_tm |-> Pts(M, a1.t, d1, a2.t, d2), kind |-> kind,
     r_ck |-> GenGridR(a1.K, a2.K), i_ck |-> GenGridI(a1.K, a2.K),
     r_h1 |-> Tab(kind, a1.J, a1.L), i_h1 |-> TabI(fn, kind, a1.J, a1.L),
     r_h2 |-> Tab(kind, a2.J, a2.L), i_h2 |-> TabI(fn, kind, a2.J, a2.L)]

FlipVals == {0, 1, 2}
StrayVals == {0, 5}

\* the axis whose parameters range over every value within the bounds:
\* the first point lies in [-K, 0), the later ones a period further each
WideAxes ==
    { Axis(K, J, L, f, t) : K \in 1..MaxK, J \in 1..MaxJ, L \in 1..MaxL,
                            f \in FlipVals, t \in -(MaxK * TDen)..(-1) }
WideAxis == { a \in WideAxes : a.t >= -(a.K * TDen) }

\* the other axis: one window running past K-1
NarrowAxis == Axis(2, 2, 1, 1, 2 * TDen + 1)

\* calls of the two sequential evaluators for the index properties
InitSeq ==
    \E fn \in {"real0", "real1"}, a \in WideAxis, swap \in BOOLEAN, s \in StrayVals :
        LET a1 == IF swap THEN NarrowAxis ELSE a
            a2 == IF swap THEN a ELSE NarrowAxis
        IN Start(Call(fn, a1, a2, MaxM + 1,
                      IF swap THEN 0 ELSE a1.K * TDen,
                      IF swap THEN a2.K * TDen ELSE 0, "generic"),
                 Env(1, 0, s, s + 1, 0))

SpecSeq == InitSeq /\ [][NextSeq]_vars

\* calls of all three evaluators, flips disabled: geometries with K1 # K2
\* and J*L even or odd, delta or generic tables, a first point on a grid node inside the
\* grid, on a node outside it, or off the nodes, later points whole periods
\* away; any prior output content; for the parallel evaluator any team size
\* whose private buffers stay within MaxWords
Fns == {"complex0", "real0", "real1"}
Geos == { <<Axis(2, 2, 1, 0, 0), Axis(3, 1, 2, 0, 0)>>,
          <<Axis(3, 1, 2, 0, 0), Axis(2, 2, 1, 0, 0)>>,
          <<Axis(2, 1, 1, 0, 0), Axis(1, 3, 1, 0, 0)>> }
BasePts == { <<0, 0>>, <<3 * TDen, -TDen>>, <<3, -3>> }
PeriodShifts == { <<1, 0>>, <<0, -1>>, <<-1, 1>> }
PriorVals == {0, 9}
Teams(fn, M) ==
    IF fn = "complex0" THEN { n \in 1..MaxThreads : n * M <= MaxWords } ELSE {1}
Strays(fn) == IF fn = "complex0" THEN {5} ELSE StrayVals

InitAll ==
    \E fn \in Fns, g \in Geos, b \in BasePts, d \in PeriodShifts,
       M \in 1..MaxM, kind \in {"delta", "generic"}, prior \in PriorVals :
      \E n \in Teams(fn, M), s \in Strays(fn) :
          Start(Call(fn, [g[1] EXCEPT !.t = b[1]], [g[2] EXCEPT !.t = b[2]], M,
                     d[1] * g[1].K * TDen, d[2] * g[2].K * TDen, kind),
                Env(n, prior, s, s + 1, 0))

SpecAll == InitAll /\ [][Next]_vars

\* calls with no query point or an empty grid axis, beside ordinary ones
InitDeg ==
    \E fn \in Fns, K1 \in {0, 2}, K2 \in {0, 3}, M \in 0..MaxM, s \in StrayVals,
       t \in {0, 3, -TDen} :
      \E n \in Teams(fn, M) :
          Start(Call(fn, Axis(K1, 2, 1, 0, t), Axis(K2, 1, 2, 1, -t), M, TDen, 0, "generic"),
                Env(n, 0, s, s, s))

SpecDeg == InitDeg /\ [][Next]_vars

\* ================================================================ claims ====
\* Point n lies a whole number of periods from point m on both axes.
WholePeriods(m, n) ==
    /\ arg.K1 > 0 /\ arg.K2 > 0
    /\ (Pt1(n) - Pt1(m)) % (arg.K1 * TDen) = 0
    /\ (Pt2(n) - Pt2(m)) % (arg.K2 * TDen) = 0
Periods1(m, n) == (Pt1(n) - Pt1(m)) \div (arg.K1 * TDen)
Periods2(m, n) == (Pt2(n) - Pt2(m)) \div (arg.K2 * TDen)
Odd(x) == x % 2 = 1

\* C4. Periodic indexing: in both real-table evaluators, for every neighbour
\* index k (negative, in range, or >= K) the pair wrap = floor(k/K),
\* kmod = k - K*wrap satisfies 0 <= kmod < K and kmod + K*wrap = k, and the
\* grid index kk = k2mod*K1 + k1mod lies in [0, K1*K2).
PeriodicIndexing ==
    /\ pc = "j1" =>
          /\ 0 <= loc.k2mod /\ loc.k2mod < arg.K2
          /\ loc.k2mod + arg.K2 * loc.wrap2 = loc.k2
    /\ (pc = "j1" /\ loc.jj1 > 0) =>
          \* the pass just made used k1 - 1 (k1++ has run)
          /\ 0 <= loc.k1mod /\ loc.k1mod < arg.K1
          /\ loc.k1mod + arg.K1 * loc.wrap1 = loc.k1 - 1
          /\ 0 <= loc.kk /\ loc.kk < arg.K1 * arg.K2
          /\ loc.kk = loc.k2mod * arg.K1 + loc.k1mod

\* a pass whose axis-1 neighbour is negative while the axis-2 one is >= K2
PeriodicIndexingWitness ==
    /\ pc = "j1" /\ loc.jj1 > 0
    /\ loc.k1 - 1 < 0 /\ loc.wrap1 < 0
    /\ loc.k2 >= arg.K2 /\ loc.wrap2 > 0

\* C5 (its 1st-order part). In interp2_table1_real_per the re-centred table
\* index floor(J*L/2) + floor(p) and its successor lie in [0, J*L], for odd
\* and even J*L.
TableIndexInRange1st ==
    arg.fn = "real1" =>
        /\ pc = "j1" => TabOk(arg.J2, arg.L2, loc.n2) /\ TabOk(arg.J2, arg.L2, loc.n2 + 1)
        /\ (pc = "j1" /\ loc.jj1 > 0) =>
              TabOk(arg.J1, arg.L1, loc.n1) /\ TabOk(arg.J1, arg.L1, loc.n1 + 1)

\* the same for the 0th-order evaluator, with n = iround(p)
TableIndexInRange0th ==
    arg.fn = "real0" =>
        /\ pc = "j1" => TabOk(arg.J2, arg.L2, loc.n2)
        /\ (pc = "j1" /\ loc.jj1 > 0) => TabOk(arg.J1, arg.L1, loc.n1)

\* the 1st-order part restricted to even J*L
TableIndexInRange1stEven ==
    arg.fn = "real1" =>
        /\ (pc = "j1" /\ (arg.J2 * arg.L2) % 2 = 0) =>
              TabOk(arg.J2, arg.L2, loc.n2) /\ TabOk(arg.J2, arg.L2, loc.n2 + 1)
        /\ (pc = "j1" /\ loc.jj1 > 0 /\ (arg.J1 * arg.L1) % 2 = 0) =>
              TabOk(arg.J1, arg.L1, loc.n1) /\ TabOk(arg.J1, arg.L1, loc.n1 + 1)

\* C8. Sign flip in the two real-table evaluators: the weight of a neighbour
\* is negated exactly when the axis' flip flag is nonzero and its wrap count
\* is odd (positive or negative), and is the sampled table weight otherwise;
\* hence the output of a point lying whole periods from another is the
\* other's output, negated once for every flipped axis with an odd number of
\* periods between them.
FlipSign(m, n) ==
    (IF arg.flip1 # 0 /\ Odd(Periods1(m, n)) THEN -1 ELSE 1)
        * (IF arg.flip2 # 0 /\ Odd(Periods2(m, n)) THEN -1 ELSE 1)
Weight2 ==
    Coef(arg.fn, arg.r_h2, arg.J2, arg.L2, pnum(loc.t2, loc.k2, arg.L2), env.stray_h2)
Weight1 ==
    Coef(arg.fn, arg.r_h1, arg.J1, arg.L1, pnum(loc.t1, loc.k1 - 1, arg.L1), env.stray_h1)
SignFlip ==
    /\ pc = "j1" =>
          loc.coef2r = (IF arg.flip2 # 0 /\ Odd(loc.wrap2) THEN -Weight2 ELSE Weight2)
    /\ (pc = "j1" /\ loc.jj1 > 0) =>
          loc.coef1r = (IF arg.flip1 # 0 /\ Odd(loc.wrap1) THEN -Weight1 ELSE Weight1)
    /\ (pc = "done" /\ IsSeq) =>
          \A m \in Slots, n \in Slots :
              WholePeriods(m, n) =>
                  /\ r_fm[n] = FlipSign(m, n) * r_fm[m]
                  /\ i_fm[n] = FlipSign(m, n) * i_fm[m]

\* a nonzero axis-1 weight negated for a negative odd wrap count
SignFlipWitness ==
    /\ pc = "j1" /\ loc.jj1 > 0
    /\ arg.flip1 # 0 /\ loc.wrap1 < 0 /\ Odd(loc.wrap1)
    /\ Weight1 # 0 /\ loc.coef1r = -Weight1

\* ------------------------------------------------------------------------
RECURSIVE SumOver(_, _)
SumOver(S, f) ==
    IF S = {} THEN 0
    ELSE LET w == CHOOSE x \in S : TRUE IN f[w] + SumOver(S \ {w}, f)

IsPar == arg.fn = "complex0"
InMerge(w) == tpc[w] \in {"load", "store"}

\* C1. Thread-count invariance of interp2_table0_complex_per: for every team
\* size, every dynamic assignment of the iterations and every merge order,
\* each output slot m holds at return exactly the sum2 of query point m.
ThreadCountInvariance ==
    (pc = "done" /\ IsPar) =>
        \A m \in Slots : r_fm[m] = Sum2Complex(m).r /\ i_fm[m] = Sum2Complex(m).i

\* the same for a team of one thread
OneThreadExact ==
    (pc = "done" /\ IsPar /\ env.nthreads = 1) =>
        \A m \in Slots : r_fm[m] = Sum2Complex(m).r /\ i_fm[m] = Sum2Complex(m).i

\* C2. When a thread enters the merge, every slot of its private buffers
\* whose iteration was assigned to another thread holds 0: whatever the
\* merge reads from such a slot is 0.
PrivateZeroElsewhere ==
    \A w \in Threads :
        (pc = "parallel" /\ InMerge(w)) =>
            \A m \in Slots :
                (owner[m] # w /\ m \in DOMAIN r_fm_private[w]) =>
                    r_fm_private[w][m] = 0 /\ i_fm_private[w][m] = 0

\* C3. The merge is serialized: at most one thread is inside the element-wise
\* addition, and every output slot holds the sum of the private values of
\* exactly the threads that have merged that slot (none lost, none twice).
MergedSlot(m) ==
    { w \in Threads : tpc[w] = "end" \/ (InMerge(w) /\ tmm[w] > m) }
MergeSerialized ==
    (pc \in {"parallel", "done"} /\ IsPar) =>
        /\ Cardinality({ w \in Threads : InMerge(w) }) <= 1
        /\ \A m \in Slots :
              /\ r_fm[m] = SumOver(MergedSlot(m),
                                   [w \in MergedSlot(m) |-> r_fm_private[w][m]])
              /\ i_fm[m] = SumOver(MergedSlot(m),
                                   [w \in MergedSlot(m) |-> i_fm_private[w][m]])

\* a second thread is adding its value on top of a first thread's, while
\* the first one's value is nonzero
MergeSerializedWitness ==
    /\ pc = "parallel"
    /\ \E w \in Threads, v \in Threads :
          /\ tpc[w] = "end" /\ tpc[v] = "store"
          /\ r_fm_private[w][tmm[v]] # 0 /\ r_fm_private[v][tmm[v]] # 0
          /\ r_fm[tmm[v]] = r_fm_private[w][tmm[v]]

\* C6. Every entry point overwrites the output: at return each slot holds
\* the value computed for its query point (for the parallel evaluator, plus
\* the words the merge read from that slot of the private buffers of the
\* other threads), whatever the output arrays held before the call.
Others(m) == Threads \ {owner[m]}
HeapOthersR(m) == SumOver(Others(m), [w \in Others(m) |-> r_fm_private[w][m]])
HeapOthersI(m) == SumOver(Others(m), [w \in Others(m) |-> i_fm_private[w][m]])
OutputOverwritten ==
    (pc = "done" /\ arg.M >= 1) =>
        \A m \in Slots :
            IF IsPar
            THEN /\ r_fm[m] = Sum2Complex(m).r + HeapOthersR(m)
                 /\ i_fm[m] = Sum2Complex(m).i + HeapOthersI(m)
            ELSE /\ r_fm[m] = Sum2Real(m).r
                 /\ i_fm[m] = Sum2Real(m).i

\* a sequential call returns with outputs that differ from the nonzero
\* content the arrays held before
OutputOverwrittenWitness ==
    /\ pc = "done" /\ IsSeq /\ arg.M >= 2 /\ env.prior # 0
    /\ \A m \in Slots : r_fm[m] # env.prior /\ i_fm[m] # -env.prior

\* the same for the parallel evaluator
OutputOverwrittenWitnessPar ==
    /\ pc = "done" /\ IsPar /\ arg.M >= 2 /\ env.prior # 0 /\ env.nthreads >= 2
    /\ \A m \in Slots : r_fm[m] # env.prior /\ i_fm[m] # -env.prior

\* C7. Periodicity, flips disabled: in each of the three evaluators the
\* outputs of two query points lying whole periods apart are identical.
Periodicity ==
    (pc = "done" /\ arg.flip1 = 0 /\ arg.flip2 = 0) =>
        \A m \in Slots, n \in Slots :
            WholePeriods(m, n) => r_fm[n] = r_fm[m] /\ i_fm[n] = i_fm[m]

\* the same for the two sequential evaluators
PeriodicitySeq == IsSeq => Periodicity

\* the same for the values the parallel evaluator computes for the points
PeriodicityPar ==
    (IsPar /\ pc \in {"parallel", "done"}) =>
        \A m \in Slots, n \in Slots :
            WholePeriods(m, n) => Sum2Complex(n) = Sum2Complex(m)

\* C10. Identity kernel: with delta tables and flips disabled, a query point
\* on an integer grid node (n1, n2), inside or outside [0, K), gets exactly
\* the grid coefficient at (n2 mod K2)*K1 + (n1 mod K1), in each evaluator.
OnNode(m) == Pt1(m) % TDen = 0 /\ Pt2(m) % TDen = 0
NodeIndex(m) ==
    ((Pt2(m) \div TDen) % arg.K2) * arg.K1 + ((Pt1(m) \div TDen) % arg.K1)
IdentityKernel ==
    (pc = "done" /\ arg.kind = "delta" /\ arg.flip1 = 0 /\ arg.flip2 = 0
       /\ arg.K1 > 0 /\ arg.K2 > 0) =>
        \A m \in Slots :
            OnNode(m) =>
                /\ r_fm[m] = Scale(arg.fn) * arg.r_ck[NodeIndex(m)]
                /\ i_fm[m] = Scale(arg.fn) * arg.i_ck[NodeIndex(m)]

\* the same for the two sequential evaluators
IdentityKernelSeq == IsSeq => IdentityKernel

\* the same for the values the parallel evaluator computes for the points
IdentityKernelPar ==
    (IsPar /\ pc \in {"parallel", "done"} /\ arg.kind = "delta") =>
        \A m \in Slots :
            OnNode(m) =>
                /\ Sum2Complex(m).r = arg.r_ck[NodeIndex(m)]
                /\ Sum2Complex(m).i = arg.i_ck[NodeIndex(m)]

\* C9. Degenerate sizes: with M = 0, or K1 = 0, or K2 = 0 the call makes no
\* undefined step (no division by zero, no read outside the grid or a table)
\* and runs to its return.
DegenerateNoError ==
    (arg.M = 0 \/ arg.K1 = 0 \/ arg.K2 = 0) =>
        /\ err = {}
        /\ pc = "done" \/ ENABLED Next

\* C9 as amended. With M = 0 (whatever K1, K2 >= 0) the call makes no
\* undefined step, runs no pass of the evaluation loop and runs to its
\* return.
EmptyInputNoError ==
    arg.M = 0 =>
        /\ err = {}
        /\ pc \notin {"j2", "j1"}
        /\ next = 0
        /\ pc = "done" \/ ENABLED Next

\* a call with no query point and an empty grid has returned
EmptyInputWitness ==
    /\ arg.M = 0 /\ arg.K1 = 0 /\ arg.K2 = 0 /\ pc = "done" /\ IsSeq

====
